---- MODULE Spec2Model ----
(***************************************************************************)
(* Ingestion pipeline of cetec-asistente-backend: the job records of       *)
(* IngestionService (app/services/ingestion_service.py), the documents     *)
(* collection it reads and writes, the background task _process_ingestion  *)
(* and the part of QdrantStore (app/utils/qdrant_client.py) it calls.      *)
(*                                                                         *)
(* Every await of the background task is one step of the model, so that    *)
(* API calls, uploads and other jobs interleave exactly where the event    *)
(* loop (or another client of the database) can run.                       *)
(***************************************************************************)
EXTENDS Integers, Sequences, FiniteSets, TLC

(***************************************************************************)
(* Bounds of the model.                                                    *)
(***************************************************************************)
NumDocs == 3
NumJobs == 2
MaxIdList == 1
MaxEvents == 2

DocIds == 1 .. NumDocs
JobIds == 1 .. NumJobs

(***************************************************************************)
(* Values of the enums.                                                    *)
(***************************************************************************)
IngestionMode == {"new", "selected", "all", "reingest"}

IngestionStatus == {"queued", "running", "completed", "failed", "canceled"}

DocumentStatus == {"uploaded", "ingested", "failed"}

\* A record that is not (or no longer) in its collection.
Absent == "absent"
Deleted == "deleted"
NoDoc == 0

\* Optional[List[str]]: None is the empty set, a list is the singleton of
\* the set of its elements.
NoList == {}
List(S) == {S}

(***************************************************************************)
(* Documents.  The subject of a document is written once, when its record  *)
(* is inserted, and the object behind its s3_key has one content.  Both    *)
(* are fixed per document identity here: the last identity belongs to a    *)
(* second subject, the others to "algebra-101".                            *)
(***************************************************************************)
Subjects == {"algebra-101", "fisica-2"}

\* Jobs are started for either subject; the document of the second subject
\* is the one whose text is whitespace.
JobSubjects == Subjects

SubjectOf(d) == IF d = NumDocs THEN "fisica-2" ELSE "algebra-101"

\* chunk_size the processing loop passes to PDFHandler.chunk
ChunkSize == 1000

\* IngestionOptions.chunk_size when the request gives none
DefaultChunkSize == 1000

\* The values of options.chunk_size a request is made with.
ChunkSizeOptions == {DefaultChunkSize, 500}

\* batch_size default of QdrantStore.upsert_chunks
BatchSize == 128

Repeat(c, n) == [i \in 1 .. n |-> c]

\* The text PdfReader extracts from the object of document d: 1500
\* letters (two chunks), 1000 letters followed by 200 blanks (the second
\* chunk is whitespace), or whitespace only.
ExtractedText ==
  [d \in DocIds |->
     CASE d % 3 = 1 -> Repeat("a", 1500)
       [] d % 3 = 2 -> Repeat("a", 1000) \o Repeat(" ", 200)
       [] OTHER -> Repeat(" ", 300)]

\* (the test "if text:", which a whitespace-only text passes)
NotEmpty(t) == Len(t) > 0

\* str.strip() of t is non-empty
Strip(t) == \E i \in 1 .. Len(t) : t[i] # " "

Min(a, b) == IF a <= b THEN a ELSE b

\* text[i : i + n] with Python's 0-based, end-clamped slice
Slice(t, i, n) == SubSeq(t, i + 1, Min(i + n, Len(t)))

RECURSIVE ChunkFrom(_, _, _)
ChunkFrom(text, i, chunk_size) ==
  IF i >= Len(text) THEN <<>>
  ELSE <<Slice(text, i, chunk_size)>> \o ChunkFrom(text, i + chunk_size, chunk_size)

\* (a loop over the full spans only: the shorter last span is dropped)
chunk_full_spans(text, chunk_size) ==
  ChunkFrom(SubSeq(text, 1, (Len(text) \div chunk_size) * chunk_size), 0, chunk_size)

\* PDFHandler.chunk
chunk(text, chunk_size) == ChunkFrom(text, 0, chunk_size)

\* The chunk_id values of the chunks kept for Qdrant (enumerate index of
\* every chunk whose text is not blank), in order.
RECURSIVE KeptFrom(_, _)
KeptFrom(chunks, k) ==
  IF k > Len(chunks) THEN <<>>
  ELSE (IF Strip(chunks[k]) THEN <<k - 1>> ELSE <<>>) \o KeptFrom(chunks, k + 1)

qdrant_chunks(text) == KeptFrom(chunk(text, ChunkSize), 1)

\* Number of Qdrant chunks the loop prepares for each document; 0 when the
\* text is blank (the loop then prepares nothing).
NumQdrantChunks ==
  [d \in DocIds |->
     IF Strip(ExtractedText[d]) THEN Len(qdrant_chunks(ExtractedText[d])) ELSE 0]

(***************************************************************************)
(* State.                                                                  *)
(*   documents          db["documents"]: the status field of each record,  *)
(*                      Absent before its insert, Deleted after its delete *)
(*   ingestion_jobs     db["ingestion_jobs"]: one record per job id        *)
(*   task               locals and position of each _process_ingestion,    *)
(*                      with two records of its history: the documents     *)
(*                      that matched docs_query when the job was created   *)
(*                      (selected_at_start) and the documents the task has *)
(*                      fetched from the cursor (touched)                  *)
(*   points             Qdrant collection: number of points per doc_id     *)
(*   collection_exists  the Qdrant collection has been created             *)
(*   indexes            the payload fields of the collection that have an  *)
(*                      index                                              *)
(*   resp               what the last API call returned                    *)
(*   events             what has happened so far besides the first job:    *)
(*                      further jobs started, requests that set            *)
(*                      options.chunk_size, cancel calls, calls of a task   *)
(*                      to the database or Qdrant that raised, records      *)
(*                      without filename or s3_key met by a task, and       *)
(*                      writes of DocumentService                          *)
(*   call               the call of a library function studied on its own  *)
(*                      (PDFHandler.chunk, _map_subject_to_category, the   *)
(*                      methods of QdrantStore): its arguments and what it *)
(*                      returned, or where each caller of init_store is;   *)
(*                      no call in a run of the pipeline                   *)
(*   collection         the points of the Qdrant collection one by one, in  *)
(*                      the runs that study QdrantStore on its own (the     *)
(*                      pipeline keeps their number per document in points) *)
(***************************************************************************)
VARIABLES documents, ingestion_jobs, task, points, collection_exists, indexes, resp, events,
          call, collection

vars ==
  <<documents, ingestion_jobs, task, points, collection_exists, indexes, resp, events,
    call, collection>>

NoCall == [op |-> "none"]

\* An IngestionRequest: mode, doc_ids and, of its options, chunk_size.
NoRequest == [mode |-> "new", doc_ids |-> NoList, chunk_size |-> DefaultChunkSize]

\* A job record.  Of its fields, logs_url, created_at, created_by and
\* request are written by the insert and read by no operation modelled
\* here; of the request the record keeps options.chunk_size here
\* (request_chunk_size), and the whole request of a start is kept with the
\* call's response.
NoJob ==
  [status |-> "none", subject_slug |-> "", docs_total |-> 0, docs_done |-> 0,
   vectors |-> 0, request_chunk_size |-> DefaultChunkSize]

NoQuery == [subject_slug |-> "", status |-> {}, ids |-> {}]

IdleTask ==
  [pc |-> "none", docs_query |-> NoQuery, cursor |-> <<>>, doc |-> NoDoc,
   pdf_content |-> "", text |-> "unread", chunks |-> 0, docs_processed |-> 0,
   total_vectors |-> 0, has_documents |-> FALSE, selected_at_start |-> {},
   touched |-> {}]

\* IngestionJob, the model the API returns
IngestionJob(job) ==
  [status |-> job.status, subject_slug |-> job.subject_slug,
   docs_total |-> job.docs_total, docs_done |-> job.docs_done,
   vectors |-> job.vectors]

NoResp ==
  [op |-> "none", job_id |-> 0, request |-> NoRequest, ok |-> FALSE,
   job |-> IngestionJob(NoJob)]

Exists(d) == documents[d] \in DocumentStatus

\* The bound of a run: at most MaxEvents events besides the first job.
MayHappen == events < MaxEvents

(***************************************************************************)
(* Queries on the documents collection.                                    *)
(***************************************************************************)
\* ids = {} : no "_id" condition; ids = {S} : "_id" $in S
Matches(d, q) ==
  /\ Exists(d)
  /\ SubjectOf(d) = q.subject_slug
  /\ documents[d] \in q.status
  /\ \A S \in q.ids : d \in S

find(q) == {d \in DocIds : Matches(d, q)}

count_documents(q) == Cardinality(find(q))

\* bool(doc_ids) in Python: neither None nor an empty list
Truthy(doc_ids) == doc_ids # NoList /\ doc_ids # List({})

\* start_ingestion, the choice of docs_query
DocsQuery(subject_slug, mode, doc_ids) ==
  IF mode = "new"
    THEN [subject_slug |-> subject_slug, status |-> {"uploaded"}, ids |-> {}]
  ELSE IF mode = "selected" /\ Truthy(doc_ids)
    THEN [subject_slug |-> subject_slug, status |-> {"uploaded"}, ids |-> doc_ids]
  ELSE IF mode = "all"
    THEN [subject_slug |-> subject_slug, status |-> {"uploaded", "ingested"}, ids |-> {}]
  ELSE IF mode = "reingest"
    THEN [subject_slug |-> subject_slug, status |-> {"ingested"}, ids |-> {}]
  ELSE [subject_slug |-> subject_slug, status |-> {"uploaded"}, ids |-> {}]

\* A cursor returns the matching records in their natural (insertion) order;
\* identities are numbered in that order.
RECURSIVE Ascending(_)
Ascending(S) ==
  IF S = {} THEN <<>>
  ELSE LET m == CHOOSE x \in S : \A y \in S : x <= y
       IN <<m>> \o Ascending(S \ {m})

(***************************************************************************)
(* Inputs of the API.                                                      *)
(***************************************************************************)
IdLists == {NoList} \cup {List(S) : S \in {T \in SUBSET DocIds : Cardinality(T) <= MaxIdList}}

\* doc_ids is read by the "selected" branch only; the other modes are
\* started without one.
Requests ==
  {r \in [mode : IngestionMode, doc_ids : IdLists, chunk_size : ChunkSizeOptions] :
     r.mode # "selected" => r.doc_ids = NoList}

\* The documents a run starts from: every document uploaded; one document
\* of each status in turn; only the first document uploaded and the others
\* not yet inserted.
InitialDocuments ==
  { [d \in DocIds |-> "uploaded"],
    [d \in DocIds |-> CASE d % 3 = 1 -> "uploaded"
                         [] d % 3 = 2 -> "ingested"
                         [] OTHER -> "failed"],
    [d \in DocIds |-> IF d = 1 THEN "uploaded" ELSE Absent] }

Init ==
  /\ documents \in InitialDocuments
  /\ ingestion_jobs = [j \in JobIds |-> NoJob]
  /\ task = [j \in JobIds |-> IdleTask]
  /\ points = [d \in DocIds |-> 0]
  /\ collection_exists = FALSE
  /\ indexes = {}
  /\ resp = NoResp
  /\ events = 0
  /\ call = NoCall
  /\ collection = {}

(***************************************************************************)
(* API: start_ingestion.  The count of line 67 is the only read of the     *)
(* documents the record depends on, and nobody knows job_id before the     *)
(* call returns, so the handler is one step taken at the count.            *)
(***************************************************************************)
\* (a record inserted as already running)
JobDocRunning(subject_slug, docs_total, request) ==
  [status |-> "running", subject_slug |-> subject_slug, docs_total |-> docs_total,
   docs_done |-> 0, vectors |-> 0, request_chunk_size |-> request.chunk_size]

JobDoc(subject_slug, docs_total, request) ==
  [status |-> "queued", subject_slug |-> subject_slug, docs_total |-> docs_total,
   docs_done |-> 0, vectors |-> 0, request_chunk_size |-> request.chunk_size]

\* The events a start counts for: one for a job after the first, one for a
\* request that sets options.chunk_size.
StartEvents(j, request) ==
  (IF j > 1 THEN 1 ELSE 0) + (IF request.chunk_size # DefaultChunkSize THEN 1 ELSE 0)

start_ingestion(j, subject_slug, request) ==
  /\ ingestion_jobs[j] = NoJob
  /\ \A i \in JobIds : i < j => ingestion_jobs[i] # NoJob
  /\ events + StartEvents(j, request) <= MaxEvents
  /\ events' = events + StartEvents(j, request)
  /\ LET docs_query == DocsQuery(subject_slug, request.mode, request.doc_ids)
         docs_total == count_documents(docs_query)
         job_doc == JobDoc(subject_slug, docs_total, request)
     IN /\ ingestion_jobs' = [ingestion_jobs EXCEPT ![j] = job_doc]
        /\ task' = [task EXCEPT ![j] =
                      [IdleTask EXCEPT !.pc = "set_running",
                                       !.docs_query = docs_query,
                                       !.selected_at_start = find(docs_query)]]
        /\ resp' = [op |-> "start", job_id |-> j, request |-> request, ok |-> TRUE,
                    job |-> IngestionJob(job_doc)]
  /\ UNCHANGED <<documents, points, collection_exists, indexes, call, collection>>

(***************************************************************************)
(* API: get_ingestion_job.  One find_one; it writes nothing, so it is the   *)
(* value a call would return in the current state.                         *)
(***************************************************************************)
NotFound == IngestionJob(NoJob)

get_ingestion_job(j) ==
  IF ingestion_jobs[j] = NoJob THEN NotFound ELSE IngestionJob(ingestion_jobs[j])

(***************************************************************************)
(* API: cancel_ingestion.  One update_one, atomic in the database.         *)
(***************************************************************************)
\* (a filter on "_id" alone)
cancel_filter_by_id(job) == job.status # "none"

\* the filter of the update: the record exists and is queued or running
cancel_filter(job) == job.status \in {"queued", "running"}

cancel_ingestion(j) ==
  /\ MayHappen
  /\ events' = events + 1
  /\ LET modified == cancel_filter(ingestion_jobs[j])
     IN /\ ingestion_jobs' =
             IF modified
               THEN [ingestion_jobs EXCEPT ![j].status = "canceled"]
               ELSE ingestion_jobs
        /\ resp' = [op |-> "cancel", job_id |-> j, request |-> NoRequest,
                    ok |-> modified, job |-> IngestionJob(NoJob)]
  /\ UNCHANGED <<documents, task, points, collection_exists, indexes, call, collection>>

(***************************************************************************)
(* The background task _process_ingestion(job_id, subject_slug,            *)
(* docs_query), one step per await.  A call of the task to the database or *)
(* to Qdrant either returns or raises; update_one on a record that is gone *)
(* matches nothing and returns normally.                                   *)
(***************************************************************************)
MayRaise == MayHappen

Goto(j, pc) == [task EXCEPT ![j].pc = pc]

\* update_one({"_id": d}, {"$set": {"status": status}}) on the documents
SetDocumentStatus(d, status) ==
  IF Exists(d) THEN [documents EXCEPT ![d] = status] ELSE documents

\* line 186: update_one({"_id": job_id}, {"$set": {"status": "running"}})
RunningFields(job) == [job EXCEPT !.status = "running"]

SetRunning(j) ==
  /\ task[j].pc = "set_running"
  /\ \/ /\ ingestion_jobs' = [ingestion_jobs EXCEPT ![j] = RunningFields(@)]
        /\ task' = Goto(j, "init_store")
        /\ UNCHANGED events
     \/ /\ MayRaise
        /\ events' = events + 1
        /\ task' = Goto(j, "job_except")
        /\ UNCHANGED ingestion_jobs
  /\ resp' = NoResp
  /\ UNCHANGED <<documents, points, collection_exists, indexes, call, collection>>

\* QdrantStore.init_store: creates the collection and its indexes, or logs
\* the exception it caught; it returns normally in both cases.
init_store_raises == FALSE

\* lines 94-96: the payload fields init_store indexes
PayloadIndexes == {"subject", "topics", "doc_id"}

InitStore(j) ==
  /\ task[j].pc = "init_store"
  /\ \/ /\ collection_exists' = TRUE
        /\ indexes' = PayloadIndexes
        /\ task' = Goto(j, "find")
        /\ UNCHANGED events
     \/ \* a call to Qdrant raises inside init_store
        /\ MayRaise
        /\ events' = events + 1
        /\ task' = Goto(j, IF init_store_raises THEN "job_except" ELSE "find")
        /\ UNCHANGED <<collection_exists, indexes>>
  /\ resp' = NoResp
  /\ UNCHANGED <<documents, ingestion_jobs, points, call, collection>>

\* _download_pdf_from_s3 returns the bytes, or None when get_object raised;
\* PDFHandler.read returns the text, or "" when the parse raised.
Texts(d) == {ExtractedText[d], <<>>}

\* lines 222-241: the number of chunks prepared from an extracted text
Prepared(text) == IF Strip(text) THEN Len(qdrant_chunks(text)) ELSE 0

\* The local text of the task is kept as what PDFHandler.read returned for
\* the document in hand: its text ("extracted"), the empty string of a parse
\* that raised ("empty"), or nothing yet ("unread").
TextRead(t) == IF t.text = "extracted" THEN ExtractedText[t.doc] ELSE <<>>

\* (two records are taken from the cursor in one iteration)
NextDocPrefetching(t) ==
  IF t.cursor = <<>>
    THEN {[t EXCEPT !.pc = "write_completed", !.pdf_content = "", !.text = "unread",
                    !.chunks = 0]}
    ELSE LET d == Head(t.cursor)
             both == {t.cursor[k] : k \in 1 .. Min(2, Len(t.cursor))}
         IN {[t EXCEPT !.cursor = SubSeq(@, Cardinality(both) + 1, Len(@)), !.doc = d,
                       !.has_documents = TRUE, !.touched = @ \cup both,
                       !.pdf_content = "None", !.text = "unread", !.chunks = 0,
                       !.pc = "progress", !.docs_processed = @ + 1]}

\* lines 202-271 and 293-297: what the task does between two awaits at the
\* top of the loop.  From the locals t it takes the next record of the
\* cursor, downloads and reads it (S3 is read with a blocking call) and
\* stops at the next await: the upsert, the progress update, the update of
\* the handler when the record has no filename or no s3_key (doc[...] raises
\* KeyError inside the try) or, when the cursor is exhausted, the final
\* update (pdf_content, text and the chunks are not read after the loop and
\* are cleared there).  The set of the locals it can stop with.
NextDoc(t) ==
  IF t.cursor = <<>>
    THEN {[t EXCEPT !.pc = "write_completed", !.pdf_content = "", !.text = "unread",
                    !.chunks = 0]}
    ELSE LET d == Head(t.cursor)
             u == [t EXCEPT !.cursor = Tail(@), !.doc = d, !.has_documents = TRUE,
                            !.touched = @ \cup {d}, !.pdf_content = "",
                            !.text = "unread", !.chunks = 0]
             counted == [u EXCEPT !.pc = "progress", !.docs_processed = @ + 1]
         IN {[u EXCEPT !.pc = "doc_except"]}
              \cup {[counted EXCEPT !.pdf_content = "None"]}
              \cup {LET label == IF text = <<>> THEN "empty" ELSE "extracted"
                    IN IF Prepared(text) > 0
                         THEN [u EXCEPT !.pc = "upsert", !.pdf_content = "bytes",
                                        !.text = label, !.chunks = Prepared(text)]
                         ELSE [counted EXCEPT !.pdf_content = "bytes", !.text = label] :
                    text \in Texts(d)}

\* A record without filename or s3_key is one of the events of a run: the
\* task t stopped in the handler of the document straight from the cursor.
RaisedKeyError(t) == t.pc = "doc_except"

Stops(j, t) ==
  /\ RaisedKeyError(t) => MayRaise
  /\ task' = [task EXCEPT ![j] = t]
  /\ events' = IF RaisedKeyError(t) THEN events + 1 ELSE events

\* lines 196-202: the query runs when the cursor is first iterated
CursorDocs(j) == find(task[j].docs_query)

Find(j) ==
  /\ task[j].pc = "find"
  /\ \/ \E t \in NextDoc([task[j] EXCEPT !.cursor = Ascending(CursorDocs(j))]) :
          Stops(j, t)
     \/ /\ MayRaise
        /\ events' = events + 1
        /\ task' = Goto(j, "job_except")
  /\ resp' = NoResp
  /\ UNCHANGED <<documents, ingestion_jobs, points, collection_exists, indexes, call, collection>>

\* QdrantStore.upsert_chunks over n chunks with text: the numbers of points
\* it can leave in the collection.  Batches of batch_size are flushed in
\* order; the first embedding or upsert that raises ends the call.
Stored(n, batch_size) ==
  {n} \cup {b * batch_size : b \in {c \in 0 .. n : c * batch_size < n}}

\* upsert_chunks catches every exception and hands it to ErrorHandler.handle,
\* which logs it: the caller never sees one.
upsert_chunks_raises(stored, n) == FALSE

\* (total_vectors = len(qdrant_chunks))
AddVectorsOverwriting(total_vectors, n) == n

\* line 248
AddVectors(total_vectors, n) == total_vectors + n

Upsert(j) ==
  /\ task[j].pc = "upsert"
  /\ LET d == task[j].doc
         n == task[j].chunks
     IN \E stored \in (IF collection_exists THEN Stored(n, BatchSize) ELSE {0}) :
          /\ stored < n => MayRaise \/ ~collection_exists
          /\ events' = IF stored < n /\ collection_exists THEN events + 1 ELSE events
          /\ points' = [points EXCEPT ![d] = @ + stored]
          /\ task' = [task EXCEPT ![j] =
                        IF upsert_chunks_raises(stored, n)
                          THEN [@ EXCEPT !.pc = "doc_except"]
                          ELSE [@ EXCEPT !.pc = "mark_ingested",
                                         !.total_vectors = AddVectors(@, n)]]
  /\ resp' = NoResp
  /\ UNCHANGED <<documents, ingestion_jobs, collection_exists, indexes, call, collection>>

\* lines 253-271
MarkIngested(j) ==
  /\ task[j].pc = "mark_ingested"
  /\ \/ /\ documents' = SetDocumentStatus(task[j].doc, "ingested")
        /\ task' = [task EXCEPT ![j].pc = "progress", ![j].docs_processed = @ + 1]
        /\ UNCHANGED events
     \/ /\ MayRaise
        /\ events' = events + 1
        /\ task' = Goto(j, "doc_except")
        /\ UNCHANGED documents
  /\ resp' = NoResp
  /\ UNCHANGED <<ingestion_jobs, points, collection_exists, indexes, call, collection>>

\* lines 275-281: the fields the progress update sets
ProgressFields(job, docs_processed, total_vectors) ==
  [job EXCEPT !.docs_done = docs_processed, !.vectors = total_vectors]

Progress(j) ==
  /\ task[j].pc = "progress"
  /\ \/ /\ ingestion_jobs' =
             [ingestion_jobs EXCEPT ![j] =
                ProgressFields(@, task[j].docs_processed, task[j].total_vectors)]
        /\ \E t \in NextDoc(task[j]) : Stops(j, t)
     \/ /\ MayRaise
        /\ events' = events + 1
        /\ task' = Goto(j, "doc_except")
        /\ UNCHANGED ingestion_jobs
  /\ resp' = NoResp
  /\ UNCHANGED <<documents, points, collection_exists, indexes, call, collection>>

\* lines 283-290: the handler of the per-document try
DocExcept(j) ==
  /\ task[j].pc = "doc_except"
  /\ \/ /\ documents' = SetDocumentStatus(task[j].doc, "failed")
        /\ \E t \in NextDoc([task[j] EXCEPT !.docs_processed = @ + 1]) : Stops(j, t)
     \/ /\ MayRaise
        /\ events' = events + 1
        /\ task' = Goto(j, "job_except")
        /\ UNCHANGED documents
  /\ resp' = NoResp
  /\ UNCHANGED <<ingestion_jobs, points, collection_exists, indexes, call, collection>>

\* (the final update also rewrites docs_total)
CompletedFieldsRecounting(job, docs_processed, total_vectors) ==
  [job EXCEPT !.status = "completed", !.docs_total = docs_processed,
              !.docs_done = docs_processed, !.vectors = total_vectors]

\* lines 298-305: the fields the final update sets
CompletedFields(job, docs_processed, total_vectors) ==
  [job EXCEPT !.status = "completed", !.docs_done = docs_processed,
              !.vectors = total_vectors]

WriteCompleted(j) ==
  /\ task[j].pc = "write_completed"
  /\ \/ /\ ingestion_jobs' =
             [ingestion_jobs EXCEPT ![j] =
                CompletedFields(@, task[j].docs_processed, task[j].total_vectors)]
        /\ task' = Goto(j, "done")
        /\ UNCHANGED events
     \/ /\ MayRaise
        /\ events' = events + 1
        /\ task' = Goto(j, "job_except")
        /\ UNCHANGED ingestion_jobs
  /\ resp' = NoResp
  /\ UNCHANGED <<documents, points, collection_exists, indexes, call, collection>>

\* lines 307-313: the handler of the outer try
FailedFields(job) == [job EXCEPT !.status = "failed"]

JobExcept(j) ==
  /\ task[j].pc = "job_except"
  /\ \/ /\ ingestion_jobs' = [ingestion_jobs EXCEPT ![j] = FailedFields(@)]
        /\ task' = Goto(j, "done")
        /\ UNCHANGED events
     \/ \* the update raises inside the handler: the task ends with it
        /\ MayRaise
        /\ events' = events + 1
        /\ task' = Goto(j, "crashed")
        /\ UNCHANGED ingestion_jobs
  /\ resp' = NoResp
  /\ UNCHANGED <<documents, points, collection_exists, indexes, call, collection>>

_process_ingestion(j) ==
  \/ SetRunning(j)
  \/ InitStore(j)
  \/ Find(j)
  \/ Upsert(j)
  \/ MarkIngested(j)
  \/ Progress(j)
  \/ DocExcept(j)
  \/ WriteCompleted(j)
  \/ JobExcept(j)

(***************************************************************************)
(* DocumentService: the other writers of the documents collection.         *)
(***************************************************************************)
MayChange == MayHappen

\* create_presigned_uploads / upload_document_direct: insert_one with a
\* fresh identity and status uploaded
upload_document(d) ==
  /\ MayChange
  /\ documents[d] = Absent
  /\ documents' = [documents EXCEPT ![d] = "uploaded"]
  /\ events' = events + 1
  /\ resp' = NoResp
  /\ UNCHANGED <<ingestion_jobs, task, points, collection_exists, indexes, call, collection>>

\* complete_uploads: update_many sets status uploaded on the listed records
\* of the subject
complete_uploads(subject_slug, doc_ids) ==
  /\ MayChange
  /\ documents' =
       [d \in DocIds |->
          IF (\E S \in doc_ids : d \in S) /\ Exists(d) /\ SubjectOf(d) = subject_slug
            THEN "uploaded" ELSE documents[d]]
  /\ events' = events + 1
  /\ resp' = NoResp
  /\ UNCHANGED <<ingestion_jobs, task, points, collection_exists, indexes, call, collection>>

\* delete_document: delete_one; the points of the document stay in Qdrant
delete_document(d) ==
  /\ MayChange
  /\ Exists(d)
  /\ documents' = [documents EXCEPT ![d] = Deleted]
  /\ events' = events + 1
  /\ resp' = NoResp
  /\ UNCHANGED <<ingestion_jobs, task, points, collection_exists, indexes, call, collection>>

Next ==
  \/ \E j \in JobIds, s \in JobSubjects, r \in Requests : start_ingestion(j, s, r)
  \/ \E j \in JobIds : cancel_ingestion(j)
  \/ \E j \in JobIds : _process_ingestion(j)
  \/ \E d \in DocIds : upload_document(d)
  \/ \E s \in Subjects, l \in IdLists \ {NoList} : complete_uploads(s, l)
  \/ \E d \in DocIds : delete_document(d)

Spec == Init /\ [][Next]_vars

(***************************************************************************)
(* PDFHandler.chunk on its own: a call with any text over two letters up   *)
(* to MaxTextLen characters and any chunk_size from 1 to MaxChunkSize.     *)
(***************************************************************************)
MaxTextLen == 4
MaxChunkSize == 5

RECURSIVE TextsOfLength(_)
TextsOfLength(n) ==
  IF n = 0 THEN {<<>>}
  ELSE {<<c>> \o t : c \in {"a", "b"}, t \in TextsOfLength(n - 1)}

ChunkTexts == UNION {TextsOfLength(n) : n \in 0 .. MaxTextLen}

ChunkInit ==
  /\ documents = [d \in DocIds |-> Absent]
  /\ ingestion_jobs = [j \in JobIds |-> NoJob]
  /\ task = [j \in JobIds |-> IdleTask]
  /\ points = [d \in DocIds |-> 0]
  /\ collection_exists = FALSE
  /\ indexes = {}
  /\ resp = NoResp
  /\ events = 0
  /\ collection = {}
  /\ call \in {[op |-> "chunk", text |-> t, chunk_size |-> c, returned |-> FALSE,
                spans |-> <<>>] : t \in ChunkTexts, c \in 1 .. MaxChunkSize}

chunk_call ==
  /\ call.op = "chunk"
  /\ ~call.returned
  /\ call' = [call EXCEPT !.returned = TRUE,
                          !.spans = chunk(call.text, call.chunk_size)]
  /\ UNCHANGED <<documents, ingestion_jobs, task, points, collection_exists, indexes, resp,
                 events, collection>>

ChunkNext == chunk_call

ChunkSpec == ChunkInit /\ [][ChunkNext]_vars

(***************************************************************************)
(* IngestionService._map_subject_to_category on its own.  A subject slug   *)
(* is the sequence of its characters; the slugs of a call are made of up   *)
(* to MaxTokens tokens: the keywords in lower case and in capitals, pieces *)
(* of keywords and other text.                                             *)
(***************************************************************************)
MaxTokens == 2

LowerLetters == <<"a", "b", "c", "d", "e", "f", "g", "h", "i", "j", "k", "l", "m", "n", "o", "p", "q", "r", "s", "t", "u", "v", "w", "x", "y", "z">>

UpperLetters == <<"A", "B", "C", "D", "E", "F", "G", "H", "I", "J", "K", "L", "M", "N", "O", "P", "Q", "R", "S", "T", "U", "V", "W", "X", "Y", "Z">>

\* (no conversion: the slug is matched as it is written)
lower_missing(c) == c

\* str.lower(), one character
lower(c) ==
  IF \E i \in 1 .. Len(UpperLetters) : UpperLetters[i] = c
    THEN LowerLetters[CHOOSE i \in 1 .. Len(UpperLetters) : UpperLetters[i] = c]
    ELSE c

upper(c) ==
  IF \E i \in 1 .. Len(LowerLetters) : LowerLetters[i] = c
    THEN UpperLetters[CHOOSE i \in 1 .. Len(LowerLetters) : LowerLetters[i] = c]
    ELSE c

Lower(s) == [i \in 1 .. Len(s) |-> lower(s[i])]

Upper(s) == [i \in 1 .. Len(s) |-> upper(s[i])]

\* kw in s
Contains(s, kw) ==
  \E i \in 0 .. Len(s) - Len(kw) : SubSeq(s, i + 1, i + Len(kw)) = kw

kw_math == <<"m", "a", "t", "h">>

kw_calculo == <<"c", "a", "l", "c", "u", "l", "o">>

kw_algebra == <<"a", "l", "g", "e", "b", "r", "a">>

kw_physic == <<"p", "h", "y", "s", "i", "c">>

kw_fisica == <<"f", "i", "s", "i", "c", "a">>

kw_quimica == <<"q", "u", "i", "m", "i", "c", "a">>

kw_chemistry == <<"c", "h", "e", "m", "i", "s", "t", "r", "y">>

kw_circuit == <<"c", "i", "r", "c", "u", "i", "t">>

kw_electr == <<"e", "l", "e", "c", "t", "r">>

MathKeywords == {kw_math, kw_calculo, kw_algebra}

PhysicsKeywords == {kw_physic, kw_fisica}

ChemistryKeywords == {kw_quimica, kw_chemistry}

CircuitKeywords == {kw_circuit, kw_electr}

Keywords == MathKeywords \cup PhysicsKeywords \cup ChemistryKeywords \cup CircuitKeywords

_map_subject_to_category(subject_slug) ==
  LET slug_lower == Lower(subject_slug)
  IN IF \E kw \in MathKeywords : Contains(slug_lower, kw) THEN "Math"
     ELSE IF \E kw \in PhysicsKeywords : Contains(slug_lower, kw) THEN "Physics"
     ELSE IF \E kw \in ChemistryKeywords : Contains(slug_lower, kw) THEN "Chemistry"
     ELSE IF \E kw \in CircuitKeywords : Contains(slug_lower, kw) THEN "Physics"
     ELSE "General"

Capitalized(s) == IF s = <<>> THEN s ELSE <<upper(Head(s))>> \o Tail(s)

SlugTokens ==
  Keywords \cup {Capitalized(kw) : kw \in Keywords} \cup {Upper(kw_math), Upper(kw_fisica)}
    \cup {<<"m", "a", "t">>, <<"h">>, <<"-">>, <<"1", "0", "1">>, <<"I", "n", "t", "r", "o">>}

RECURSIVE SlugsOfTokens(_)
SlugsOfTokens(n) ==
  IF n = 0 THEN {<<>>}
  ELSE {t \o s : t \in SlugTokens, s \in SlugsOfTokens(n - 1)}

Slugs == UNION {SlugsOfTokens(n) : n \in 0 .. MaxTokens}

MapInit ==
  /\ documents = [d \in DocIds |-> Absent]
  /\ ingestion_jobs = [j \in JobIds |-> NoJob]
  /\ task = [j \in JobIds |-> IdleTask]
  /\ points = [d \in DocIds |-> 0]
  /\ collection_exists = FALSE
  /\ indexes = {}
  /\ resp = NoResp
  /\ events = 0
  /\ collection = {}
  /\ call \in {[op |-> "map", subject_slug |-> s, returned |-> FALSE, category |-> ""] :
                s \in Slugs}

map_call ==
  /\ call.op = "map"
  /\ ~call.returned
  /\ call' = [call EXCEPT !.returned = TRUE,
                          !.category = _map_subject_to_category(call.subject_slug)]
  /\ UNCHANGED <<documents, ingestion_jobs, task, points, collection_exists, indexes, resp,
                 events, collection>>

MapNext == map_call

MapSpec == MapInit /\ [][MapNext]_vars

(***************************************************************************)
(* QdrantStore on its own: calls of upsert_chunks, search and              *)
(* delete_by_doc on an existing collection.  A chunk is the dict the       *)
(* processing loop builds for a span of a document (its text is "" when    *)
(* the call is made with a chunk that has none); a point is its id and its *)
(* payload, with the chunk it was staged from (chunk) kept beside them.    *)
(***************************************************************************)
MaxChunks == 2
MaxBatchSize == 3
MaxPoints == 4

StoreDocs == {"d1", "d2"}

\* Optional values: None, or the value.
None == {}
Some(x) == {x}

\* The record of a document in db["documents"], of the fields the loop reads.
Document(d) ==
  IF d = "d1"
    THEN [_id |-> "d1", filename |-> "d1.pdf", s3_key |-> "algebra-101/d1_d1.pdf",
          subject_slug |-> kw_algebra \o <<"-", "1", "0", "1">>]
    ELSE [_id |-> "d2", filename |-> "d2.pdf", s3_key |-> "fisica-2/d2_d2.pdf",
          subject_slug |-> kw_fisica \o <<"-", "2">>]

\* The text of the span of index chunk_idx of a document.
SpanText(doc, chunk_idx) ==
  IF doc._id = "d1"
    THEN CASE chunk_idx = 0 -> "alpha" [] chunk_idx = 1 -> "beta" [] OTHER -> "gamma"
    ELSE CASE chunk_idx = 0 -> "delta" [] chunk_idx = 1 -> "epsilon" [] OTHER -> "zeta"

\* (the chunk takes its doc_id from a field the record does not have)
QdrantChunkOfNoId(doc, chunk_idx, chunk_text) ==
  [text |-> chunk_text,
   subject |-> _map_subject_to_category(doc.subject_slug),
   s3_uri |-> <<"s3://", "bucket", "/", doc.s3_key>>,
   doc_id |-> "None",
   page |-> 1,
   chunk_id |-> chunk_idx,
   title |-> doc.filename,
   topics |-> {}]

\* lines 231-240: the dict appended to qdrant_chunks
QdrantChunk(doc, chunk_idx, chunk_text) ==
  [text |-> chunk_text,
   subject |-> _map_subject_to_category(doc.subject_slug),
   s3_uri |-> <<"s3://", "bucket", "/", doc.s3_key>>,
   doc_id |-> doc._id,
   page |-> 1,
   chunk_id |-> chunk_idx,
   title |-> doc.filename,
   topics |-> {}]

\* The topics a caller of upsert_chunks gives the chunks of a document (the
\* processing loop gives none).
TopicsOf(d) == IF d = "d2" THEN {"t1"} ELSE {}

RECURSIVE ChunkTextsOfLength(_)
ChunkTextsOfLength(n) ==
  IF n = 0 THEN {<<>>}
  ELSE {<<c>> \o t : c \in {"x", ""}, t \in ChunkTextsOfLength(n - 1)}

\* The chunk lists of a call: up to MaxChunks chunks of one document,
\* numbered from 0, each with or without text.
ChunkLists ==
  {[k \in 1 .. Len(texts) |->
      [QdrantChunk(Document(d), k - 1, IF texts[k] = "" THEN "" ELSE SpanText(Document(d), k - 1))
         EXCEPT !.topics = TopicsOf(d)]] :
     texts \in UNION {ChunkTextsOfLength(n) : n \in 0 .. MaxChunks}, d \in StoreDocs}

\* lines 143-163: the batches upsert_chunks embeds and flushes, in order.
\* A chunk without text is skipped; a batch is flushed when it has
\* batch_size chunks, and what is left after the last chunk is the tail.
RECURSIVE BatchesFrom(_, _, _, _)
BatchesFrom(chunks, k, stash, batch_size) ==
  IF k > Len(chunks)
    THEN (IF stash # <<>> THEN <<stash>> ELSE <<>>)
  ELSE IF chunks[k].text = ""
    THEN BatchesFrom(chunks, k + 1, stash, batch_size)
  ELSE IF Len(stash) + 1 >= batch_size
    THEN <<Append(stash, chunks[k])>> \o BatchesFrom(chunks, k + 1, <<>>, batch_size)
  ELSE BatchesFrom(chunks, k + 1, Append(stash, chunks[k]), batch_size)

Ids(coll) == {p.id : p \in coll}

\* uuid4(): an identifier no point has (the first of the numbers no point
\* has).
uuid4(used) ==
  CHOOSE m \in 1 .. Cardinality(used) + 1 :
    m \notin used /\ \A x \in 1 .. m - 1 : x \in used

\* (an identifier derived from the chunk: the same chunk, the same id)
PointIdOfChunk(used, meta) ==
  (IF meta.doc_id = "d1" THEN 100 ELSE 200) + meta.chunk_id

\* line 184: id=str(uuid4())
PointId(used, meta) == uuid4(used)

\* dict.get(key)
Get(meta, key) == IF key \in DOMAIN meta THEN meta[key] ELSE "None"

\* (a payload without its text)
PayloadTextFromContent(meta) == Get(meta, "content")

\* line 195: meta.get("text") or meta.get("content")
PayloadText(meta) ==
  IF Get(meta, "text") \notin {"None", ""} THEN Get(meta, "text") ELSE Get(meta, "content")

\* lines 182-197: the point of a chunk
PointStruct(id, meta) ==
  [id |-> id,
   subject |-> Get(meta, "subject"),
   topics |-> IF "topics" \in DOMAIN meta THEN meta.topics ELSE {},
   s3_uri |-> Get(meta, "s3_uri"),
   doc_id |-> Get(meta, "doc_id"),
   page |-> Get(meta, "page"),
   chunk_id |-> Get(meta, "chunk_id"),
   title |-> Get(meta, "title"),
   text |-> PayloadText(meta),
   chunk |-> meta]

\* _embed_and_stage_points: one point per chunk of the batch
RECURSIVE StagePoints(_, _)
StagePoints(stash, used) ==
  IF stash = <<>> THEN {}
  ELSE LET id == PointId(used, Head(stash))
       IN {PointStruct(id, Head(stash))} \cup StagePoints(Tail(stash), used \cup {id})

\* client.upsert: a point replaces the point of the same id
ClientUpsert(coll, buf) == {p \in coll : p.id \notin Ids(buf)} \cup buf

\* _flush of the first b batches
RECURSIVE Flushed(_, _, _)
Flushed(coll, batches, b) ==
  IF b = 0 THEN coll
  ELSE Flushed(ClientUpsert(coll, StagePoints(Head(batches), Ids(coll))),
               Tail(batches), b - 1)

WithText(chunks) == Cardinality({k \in 1 .. Len(chunks) : chunks[k].text # ""})

StoreInit ==
  /\ documents = [d \in DocIds |-> Absent]
  /\ ingestion_jobs = [j \in JobIds |-> NoJob]
  /\ task = [j \in JobIds |-> IdleTask]
  /\ points = [d \in DocIds |-> 0]
  /\ collection_exists = TRUE
  /\ indexes = PayloadIndexes
  /\ resp = NoResp
  /\ events = 0
  /\ collection = {}
  /\ call = [op |-> "none", n |-> 0, batch_size |-> 0, raised |-> FALSE]

\* upsert_chunks(chunks, batch_size=batch_size): every batch is flushed, or
\* an embedding or a client.upsert raises after b of them and the exception
\* is logged; the call returns None in both cases.
upsert_chunks_call(chunks, batch_size) ==
  /\ Cardinality(collection) + Len(chunks) <= MaxPoints
  /\ LET batches == BatchesFrom(chunks, 1, <<>>, batch_size)
     IN \E b \in 0 .. Len(batches) :
          /\ collection' = Flushed(collection, batches, b)
          /\ call' = [op |-> "upsert_chunks", n |-> WithText(chunks),
                      batch_size |-> batch_size, raised |-> b < Len(batches)]
  /\ UNCHANGED <<documents, ingestion_jobs, task, points, collection_exists, indexes, resp,
                 events>>

\* The similarity of the query and of a text as client.search scores it,
\* in units of 10^-7.
Score(query, text) ==
  CASE text = "alpha" -> 9000000 [] text = "beta" -> 5000004 [] text = "gamma" -> 1000000
    [] text = "delta" -> 7000000 [] text = "epsilon" -> 5000001 [] OTHER -> 3000000

\* round(score, 6), of a score in units of 10^-7
round6(score) ==
  LET q == score \div 10
      r == score % 10
  IN IF r < 5 \/ (r = 5 /\ q % 2 = 0) THEN q * 10 ELSE (q + 1) * 10

\* _build_filter: the conditions of the filter, one per argument that is
\* truthy (None when there is none)
_build_filter(subject, topics_any, doc_ids_any) ==
  [subject |-> IF subject # None /\ subject # Some("") THEN subject ELSE None,
   topics |-> IF Truthy(topics_any) THEN topics_any ELSE None,
   doc_id |-> IF Truthy(doc_ids_any) THEN doc_ids_any ELSE None]

\* The points a filter selects: MatchValue on subject, MatchAny on topics
\* and on doc_id.
Selected(coll, flt) ==
  {p \in coll : /\ \A v \in flt.subject : p.subject = v
                /\ \A any \in flt.topics : p.topics \cap any # {}
                /\ \A any \in flt.doc_id : p.doc_id \in any}

\* client.search(query_vector, limit=top_k, query_filter=flt): the selected
\* points of the highest scores, the highest first
ClientSearch(coll, query, top_k, flt) ==
  LET sel == Selected(coll, flt)
      n == Cardinality(sel)
      ranked == {r \in [1 .. n -> sel] :
                   /\ \A i, k \in 1 .. n : i # k => r[i] # r[k]
                   /\ \A i, k \in 1 .. n :
                        i < k => Score(query, r[i].text) >= Score(query, r[k].text)}
  IN {SubSeq(r, 1, Min(top_k, n)) : r \in ranked}

\* lines 244-264: the hits of a score under the threshold are skipped, the
\* others are returned with their payload and their score rounded
RECURSIVE Results(_, _, _)
Results(hits, query, score_threshold) ==
  IF hits = <<>> THEN <<>>
  ELSE LET h == Head(hits)
           rest == Results(Tail(hits), query, score_threshold)
       IN IF \E t \in score_threshold : Score(query, h.text) < t
            THEN rest
            ELSE <<[score |-> round6(Score(query, h.text)), text |-> h.text,
                    subject |-> h.subject, topics |-> h.topics, s3_uri |-> h.s3_uri,
                    doc_id |-> h.doc_id, page |-> h.page, chunk_id |-> h.chunk_id,
                    title |-> h.title, point_id |-> h.id]>> \o rest

\* The arguments of the calls of search.
Unfiltered(top_k) ==
  [top_k |-> top_k, subject |-> None, topics_any |-> NoList, doc_ids_any |-> NoList,
   score_threshold |-> None]

SearchArgs ==
  {Unfiltered(8), Unfiltered(1),
   [Unfiltered(8) EXCEPT !.subject = Some("Math")],
   [Unfiltered(8) EXCEPT !.topics_any = List({"t1"})],
   [Unfiltered(8) EXCEPT !.topics_any = List({})],
   [Unfiltered(8) EXCEPT !.doc_ids_any = List({"d1"})],
   [Unfiltered(8) EXCEPT !.doc_ids_any = List({})],
   [Unfiltered(8) EXCEPT !.score_threshold = Some(5000002)],
   [Unfiltered(1) EXCEPT !.subject = Some("Physics"), !.topics_any = List({"t1"}),
                         !.doc_ids_any = List({"d1", "d2"}),
                         !.score_threshold = Some(5000000)]}

\* search(query, top_k, subject=..., topics_any=..., doc_ids_any=...,
\* score_threshold=...): the results of the hits, or [] when the embedding
\* or client.search raises and the exception is logged.
search_call(args) ==
  /\ \/ \E hits \in ClientSearch(collection, "q", args.top_k,
                                  _build_filter(args.subject, args.topics_any,
                                                args.doc_ids_any)) :
          call' = [op |-> "search", args |-> args, raised |-> FALSE,
                   results |-> Results(hits, "q", args.score_threshold)]
     \/ call' = [op |-> "search", args |-> args, raised |-> TRUE, results |-> <<>>]
  /\ UNCHANGED <<documents, ingestion_jobs, task, points, collection_exists, indexes, resp,
                 events, collection>>

\* count(subject): the number of points of the subject (of all the points
\* when subject is None)
count(subject) == Cardinality(Selected(collection, _build_filter(subject, NoList, NoList)))

\* client.delete with the filter doc_id = doc_id
Deleted_by_doc(coll, doc_id) == {p \in coll : p.doc_id # doc_id}

\* delete_by_doc(doc_id): the points of the document are deleted, or
\* client.delete raises and the exception is logged; the call returns 0 in
\* both cases.
delete_by_doc_call(doc_id) ==
  /\ \/ /\ collection' = Deleted_by_doc(collection, doc_id)
        /\ call' = [op |-> "delete_by_doc", doc_id |-> doc_id, raised |-> FALSE,
                    result |-> 0]
     \/ /\ collection' = collection
        /\ call' = [op |-> "delete_by_doc", doc_id |-> doc_id, raised |-> TRUE,
                    result |-> 0]
  /\ UNCHANGED <<documents, ingestion_jobs, task, points, collection_exists, indexes, resp,
                 events>>

StoreNext ==
  \/ \E chunks \in ChunkLists, batch_size \in 1 .. MaxBatchSize :
       upsert_chunks_call(chunks, batch_size)
  \/ \E args \in SearchArgs : search_call(args)
  \/ \E doc_id \in StoreDocs : delete_by_doc_call(doc_id)

StoreSpec == StoreInit /\ [][StoreNext]_vars

(***************************************************************************)
(* QdrantStore.init_store step by step: the callers of init_store run      *)
(* concurrently, each await of a call being one step.  Qdrant answers      *)
(* every request: get_collection raises when there is no collection,       *)
(* create_collection raises when there is one, create_payload_index        *)
(* creates the index or raises when the field has one.  call.pc is where   *)
(* each caller is, call.error whether its call has logged an exception     *)
(* through error_handler.handle.                                           *)
(***************************************************************************)
NumCallers == 3

Callers == 1 .. NumCallers

InitStoreInit ==
  /\ documents = [d \in DocIds |-> Absent]
  /\ ingestion_jobs = [j \in JobIds |-> NoJob]
  /\ task = [j \in JobIds |-> IdleTask]
  /\ points = [d \in DocIds |-> 0]
  /\ collection_exists = FALSE
  /\ indexes = {}
  /\ resp = NoResp
  /\ events = 0
  /\ collection = {}
  /\ call = [op |-> "init_store", pc |-> [c \in Callers |-> "idle"],
             error |-> [c \in Callers |-> FALSE]]

At(c, pc) == [call EXCEPT !.pc[c] = pc]

\* init_store() is called
init_store_call(c) ==
  /\ call.pc[c] \in {"idle", "returned"}
  /\ call' = [call EXCEPT !.pc[c] = "get_collection", !.error[c] = FALSE]
  /\ UNCHANGED <<documents, ingestion_jobs, task, points, collection_exists, indexes, resp,
                 events, collection>>

\* lines 83-85: get_collection returns, or raises and the collection is to
\* be created
get_collection(c) ==
  /\ call.pc[c] = "get_collection"
  /\ call' = At(c, IF collection_exists THEN "subject" ELSE "create_collection")
  /\ UNCHANGED <<documents, ingestion_jobs, task, points, collection_exists, indexes, resp,
                 events, collection>>

\* lines 86-91 and 98-99: create_collection creates the collection, or
\* raises because there is one: the exception leaves the inner handler,
\* error_handler.handle logs it and init_store returns
create_collection(c) ==
  /\ call.pc[c] = "create_collection"
  /\ IF collection_exists
       THEN /\ call' = [call EXCEPT !.pc[c] = "returned", !.error[c] = TRUE]
            /\ UNCHANGED collection_exists
       ELSE /\ collection_exists' = TRUE
            /\ call' = At(c, "subject")
  /\ UNCHANGED <<documents, ingestion_jobs, task, points, indexes, resp, events,
                 collection>>

\* _ensure_payload_index(field_name, "keyword"): the index is created, or
\* create_payload_index raises because it is there and the exception is
\* logged at debug level
_ensure_payload_index(c) ==
  /\ call.pc[c] \in PayloadIndexes
  /\ indexes' = indexes \cup {call.pc[c]}
  /\ call' = At(c, CASE call.pc[c] = "subject" -> "topics"
                     [] call.pc[c] = "topics" -> "doc_id"
                     [] OTHER -> "returned")
  /\ UNCHANGED <<documents, ingestion_jobs, task, points, collection_exists, resp, events,
                 collection>>

InitStoreNext ==
  \E c \in Callers :
    \/ init_store_call(c)
    \/ get_collection(c)
    \/ create_collection(c)
    \/ _ensure_payload_index(c)

InitStoreSpec == InitStoreInit /\ [][InitStoreNext]_vars

(***************************************************************************)
(* Properties.                                                             *)
(***************************************************************************)
Created(j) == ingestion_jobs[j] # NoJob

\* The transitions of the job state machine.
StatusTransitions ==
  { <<"queued", "running">>, <<"running", "completed">>, <<"running", "failed">>,
    <<"queued", "canceled">>, <<"running", "canceled">> }

\* C1: every change of the status of a job record is one of queued->running,
\* running->completed, running->failed, queued->canceled, running->canceled;
\* a status of completed, failed or canceled is never changed again.
C1_StatusOnlyMovesForward ==
  [][\A j \in JobIds :
       Created(j) /\ ingestion_jobs'[j].status # ingestion_jobs[j].status
         => <<ingestion_jobs[j].status, ingestion_jobs'[j].status>> \in StatusTransitions]_vars

\* C2: once the record of a job says canceled, its task takes no further
\* document from the cursor: the documents it has fetched stay the ones it
\* had fetched, and docs_done grows by the document in flight at most.
C2_NoDocumentStartedAfterCancel ==
  [][\A j \in JobIds :
       ingestion_jobs[j].status = "canceled"
         => task'[j].touched \subseteq task[j].touched]_vars

\* C3: cancel returns true exactly when the record exists and is queued or
\* running; it then sets that record's status to canceled in the same step
\* and changes nothing else; when it returns false no record changes.
C3_CancelAcceptsExactlyNonTerminal ==
  [][resp'.op = "cancel" =>
       LET j == resp'.job_id
       IN /\ resp'.ok = (ingestion_jobs[j].status \in {"queued", "running"})
          /\ resp'.ok =>
               ingestion_jobs' = [ingestion_jobs EXCEPT ![j].status = "canceled"]
          /\ ~resp'.ok => ingestion_jobs' = ingestion_jobs
          /\ documents' = documents]_vars

\* C3, its case: a cancel of a job whose task had begun was accepted.
C3_CancelAcceptedWhileRunning ==
  /\ resp.op = "cancel"
  /\ resp.ok
  /\ ingestion_jobs[resp.job_id].status = "canceled"
  /\ task[resp.job_id].pc \in {"upsert", "mark_ingested", "progress"}

\* C4: docs_done never exceeds docs_total, whatever happens to the documents
\* of the subject between the count of start_ingestion and the query of the
\* task.
C4_DocsDoneAtMostDocsTotal ==
  \A j \in JobIds : ingestion_jobs[j].docs_done <= ingestion_jobs[j].docs_total

\* C5: from one state of a job record to the next, neither docs_done nor
\* vectors decreases, so successive reads of the record see them grow.
C5_ProgressNeverDecreases ==
  [][\A j \in JobIds :
       Created(j) =>
         /\ ingestion_jobs'[j].docs_done >= ingestion_jobs[j].docs_done
         /\ ingestion_jobs'[j].vectors >= ingestion_jobs[j].vectors]_vars

\* C5, its case: a running job whose progress was written after its second
\* document, with the vectors of both.
C5_ProgressWrittenTwice ==
  \E j \in JobIds :
    /\ ingestion_jobs[j].status = "running"
    /\ ingestion_jobs[j].docs_done = 2
    /\ ingestion_jobs[j].vectors = NumQdrantChunks[1] + NumQdrantChunks[2]
    /\ NumQdrantChunks[1] > 0 /\ NumQdrantChunks[2] > 0

\* C6: the documents a job fetches are documents that matched its filter
\* when the job was created, and a completed job has fetched all of those.
C6_TouchesExactlyTheCandidateSet ==
  \A j \in JobIds :
    /\ task[j].touched \subseteq task[j].selected_at_start
    /\ ingestion_jobs[j].status = "completed" /\ task[j].pc = "done"
         => task[j].touched = task[j].selected_at_start

\* The candidate set of each selection mode; an absent id list names no
\* document.
Candidates(subject_slug, request) ==
  LET ids == UNION request.doc_ids
      wanted == CASE request.mode = "new" -> {"uploaded"}
                  [] request.mode = "selected" -> {"uploaded"}
                  [] request.mode = "all" -> {"uploaded", "ingested"}
                  [] request.mode = "reingest" -> {"ingested"}
  IN {d \in DocIds :
        /\ Exists(d)
        /\ SubjectOf(d) = subject_slug
        /\ documents[d] \in wanted
        /\ request.mode = "selected" => d \in ids}

\* C7: a start selects exactly the candidate set of its mode, for every id
\* list, and docs_total is the size of that set.
C7_CandidateSetOfEachMode ==
  [][resp'.op = "start" =>
       LET j == resp'.job_id
           candidates == Candidates(ingestion_jobs'[j].subject_slug, resp'.request)
       IN /\ task'[j].selected_at_start = candidates
          /\ ingestion_jobs'[j].docs_total = Cardinality(candidates)
          /\ resp'.job.docs_total = Cardinality(candidates)]_vars

\* C8: docs_total of a job record never changes after the record is created.
C8_DocsTotalWrittenOnce ==
  [][\A j \in JobIds :
       Created(j) => ingestion_jobs'[j].docs_total = ingestion_jobs[j].docs_total]_vars

\* C8, its case: a job completed with a docs_done other than its docs_total
\* (the documents of the subject changed meanwhile) and docs_total stayed.
C8_CompletedWithOtherCount ==
  \E j \in JobIds :
    /\ ingestion_jobs[j].status = "completed"
    /\ ingestion_jobs[j].docs_done # ingestion_jobs[j].docs_total
    /\ ingestion_jobs[j].docs_total = Cardinality(task[j].selected_at_start)

\* C9: in a run of one job that nothing disturbs, when the download of a
\* document has failed and the task has counted it in docs_processed and
\* gone on, the status of that document is failed.
C9_FailedDownloadMarksDocumentFailed ==
  \A j \in JobIds :
    /\ events = 0
    /\ task[j].pc = "progress"
    /\ task[j].pdf_content = "None"
    => /\ task[j].docs_processed = Cardinality(task[j].touched)
       /\ documents[task[j].doc] = "failed"

\* C10: when upsert_chunks stores fewer points than it was given chunks (an
\* embedding or a store call raised), the task goes to the handler of the
\* document, which sets it failed, and not on to set it ingested.
C10_UpsertFailureReachesTheHandler ==
  [][\A j \in JobIds :
       /\ task[j].pc = "upsert"
       /\ task'[j].pc # "upsert"
       /\ points'[task[j].doc] < points[task[j].doc] + task[j].chunks
       => /\ task'[j].pc = "doc_except"
          /\ task'[j].total_vectors = task[j].total_vectors]_vars

\* C11: the vectors count of a task changes only at an upsert, by the number
\* of chunks of the document, and only when the store has taken every one of
\* them; an upsert that stored none or some of them adds nothing.
C11_VectorsCountStoredChunks ==
  [][\A j \in JobIds :
       task[j].pc # "none" /\ task'[j].total_vectors # task[j].total_vectors
         => /\ task[j].pc = "upsert"
            /\ task'[j].total_vectors = task[j].total_vectors + task[j].chunks
            /\ points'[task[j].doc] = points[task[j].doc] + task[j].chunks]_vars

\* C12: when a call to Qdrant fails inside init_store, the task goes to the
\* handler of the job (which sets the job failed) and not on to the query of
\* the documents.
C12_InitStoreFailureFailsTheJob ==
  [][\A j \in JobIds :
       /\ task[j].pc = "init_store"
       /\ task'[j].pc # "init_store"
       /\ events' # events
       => /\ task'[j].pc = "job_except"
          /\ task'[j].touched = {}]_vars

\* C13: when the task has fetched a record and lands in an exception handler
\* without having reached an await (the record lacks filename or s3_key and
\* doc[...] raised), the handler is the handler of the job: the job is set
\* failed and no further record is fetched.
C13_MissingFieldFailsTheJob ==
  [][\A j \in JobIds :
       /\ task'[j].touched # task[j].touched
       /\ task'[j].pc \in {"doc_except", "job_except"}
       /\ task'[j].text = "unread" /\ task'[j].pdf_content = ""
       => task'[j].pc = "job_except"]_vars

\* C14: a job that was created with no document matching its filter, and
\* whose task has ended without going through the handler of the job, is
\* completed with docs_total 0, docs_done 0 and vectors 0, and its task has
\* fetched (and so written) no document.
C14_EmptyCandidateSetCompletesEmpty ==
  \A j \in JobIds :
    /\ task[j].pc = "done"
    /\ task[j].selected_at_start = {}
    /\ ingestion_jobs[j].status # "failed"
    => /\ ingestion_jobs[j].status = "completed"
       /\ ingestion_jobs[j].docs_total = 0
       /\ ingestion_jobs[j].docs_done = 0
       /\ ingestion_jobs[j].vectors = 0
       /\ task[j].touched = {}

\* A text with no character other than whitespace (the empty text too).
Blank(t) == \A i \in 1 .. Len(t) : t[i] = " "

C16_DocumentStatusTransitions ==
  [][\A j \in JobIds :
       LET d == task[j].doc
           marks == task[j].pc = "mark_ingested" /\ task'[j].pc = "progress"
           fails == /\ task[j].pc = "doc_except"
                    /\ task'[j].docs_processed # task[j].docs_processed
       IN /\ marks /\ Exists(d)
               => /\ documents[d] \in {"uploaded", "ingested"}
                  /\ documents' = [documents EXCEPT ![d] = "ingested"]
          /\ fails /\ Exists(d)
               => /\ documents[d] = "uploaded"
                  /\ documents' = [documents EXCEPT ![d] = "failed"]
          /\ task'[j] # task[j] /\ ~marks /\ ~fails => documents' = documents]_vars

\* C17: a start inserts a record with status queued, docs_done 0 and vectors
\* 0 and returns a handle with those values and the docs_total it counted,
\* while the task of the job has taken no step and no document has been
\* touched; the record of a job whose start has returned is never missing,
\* so get_ingestion_job finds it from then on.
C17_StartPersistsQueuedRecord ==
  [][/\ resp'.op = "start" =>
          LET j == resp'.job_id
              docs_query == DocsQuery(ingestion_jobs'[j].subject_slug,
                                      resp'.request.mode, resp'.request.doc_ids)
          IN /\ ingestion_jobs[j] = NoJob
             /\ ingestion_jobs'[j].status = "queued"
             /\ ingestion_jobs'[j].docs_done = 0
             /\ ingestion_jobs'[j].vectors = 0
             /\ ingestion_jobs'[j].docs_total = count_documents(docs_query)
             /\ resp'.job = IngestionJob(ingestion_jobs'[j])
             /\ task'[j].pc = "set_running"
             /\ task'[j].docs_processed = 0 /\ task'[j].touched = {}
             /\ documents' = documents /\ points' = points
     /\ \A j \in JobIds :
          /\ task[j].pc # "none" => get_ingestion_job(j) # NotFound
          /\ get_ingestion_job(j) # NotFound => ingestion_jobs'[j] # NoJob]_vars

\* C17, its case: a start over two candidate documents has just returned.
C17_StartReturnedHandle ==
  /\ resp.op = "start"
  /\ resp.job.status = "queued"
  /\ resp.job.docs_total = 2
  /\ get_ingestion_job(resp.job_id) = resp.job
  /\ task[resp.job_id].pc = "set_running"

RECURSIVE Concat(_)
Concat(spans) == IF spans = <<>> THEN <<>> ELSE Head(spans) \o Concat(Tail(spans))

\* C18: chunk(text, chunk_size) with chunk_size >= 1 returns
\* ceil(len(text) / chunk_size) spans, each of chunk_size characters but the
\* last, which has between 1 and chunk_size, and the spans put together in
\* order are the text; the empty text gives no span.
C18_ChunkCoversTheText ==
  call.op = "chunk" /\ call.returned =>
    LET n == Len(call.text)
        c == call.chunk_size
        spans == call.spans
    IN /\ Len(spans) = (n + c - 1) \div c
       /\ \A k \in 1 .. Len(spans) - 1 : Len(spans[k]) = c
       /\ Len(spans) > 0 => Len(spans[Len(spans)]) \in 1 .. c
       /\ Concat(spans) = call.text
       /\ n = 0 => spans = <<>>

\* C18, its case: a text of four characters was cut with chunk_size 3 into
\* a full span and a shorter one.
C18_ShortLastSpan ==
  /\ call.op = "chunk" /\ call.returned
  /\ call.text = <<"a", "b", "b", "a">>
  /\ call.chunk_size = 3
  /\ call.spans = << <<"a", "b", "b">>, <<"a">> >>

\* C19: the chunks the task prepares from the text of a document are the
\* non-blank spans of that text cut with the chunk_size of the request of
\* its job (1000 when the request gives none).
C19_ChunkSizeOfTheRequest ==
  [][\A j \in JobIds :
       /\ task'[j].touched # task[j].touched
       /\ task'[j].text = "extracted"
       => task'[j].chunks =
            Len(KeptFrom(chunk(TextRead(task'[j]), ingestion_jobs[j].request_chunk_size), 1))]_vars

\* C20: a call of upsert_chunks that did not fail, over chunks of which N
\* have text, leaves every point that was in the collection in place and
\* adds exactly N points, each with an identifier no other point has, for
\* every batch_size; so the same chunks upserted again are N more points.
C20_UpsertAddsOnePointPerChunk ==
  [][/\ call'.op = "upsert_chunks"
     /\ ~call'.raised
     /\ <<call', collection'>> # <<call, collection>>
     => /\ collection \subseteq collection'
        /\ Cardinality(collection') = Cardinality(collection) + call'.n
        /\ \A p \in collection' \ collection : p.id \notin Ids(collection)
        /\ \A p, q \in collection' : p.id = q.id => p = q]_vars

\* C20, its case: two chunks were upserted with batch_size 2 (one full batch
\* and no tail) and the collection holds two points of one chunk, the one of
\* an earlier call and the new one.
C20_SameChunkUpsertedTwice ==
  /\ call.op = "upsert_chunks" /\ ~call.raised
  /\ call.n = 2 /\ call.batch_size = 2
  /\ Cardinality(collection) = 4
  /\ \E p, q \in collection :
       p.id # q.id /\ p.doc_id = q.doc_id /\ p.chunk_id = q.chunk_id

\* C21: every hit of a search has the subject asked for, a topic of
\* topics_any and a doc_id of doc_ids_any when these are given, and a score
\* that is not under score_threshold; there are at most top_k hits, in
\* descending order of score; a search that gives no filter and no threshold
\* returns every point when top_k allows it.
C21_HitsSatisfyTheFilters ==
  call.op = "search" /\ ~call.raised =>
    LET a == call.args
        r == call.results
    IN /\ \A i \in 1 .. Len(r) :
            /\ \A v \in a.subject : r[i].subject = v
            /\ \A any \in a.topics_any : r[i].topics \cap any # {}
            /\ \A any \in a.doc_ids_any : r[i].doc_id \in any
            /\ \A t \in a.score_threshold : r[i].score >= t
       /\ Len(r) <= a.top_k
       /\ \A i, k \in 1 .. Len(r) : i < k => r[i].score >= r[k].score
       /\ a = Unfiltered(a.top_k) /\ a.top_k >= Cardinality(collection)
            => {r[i].point_id : i \in 1 .. Len(r)} = Ids(collection)

\* C22: a search by the doc_id of an upserted chunk, with no other filter,
\* no threshold and top_k not under the number of points, returns a hit
\* whose text, subject, topics, s3_uri, doc_id, page, chunk_id and title are
\* those of the chunk.
C22_SearchReturnsTheUpsertedChunk ==
  call.op = "search" /\ ~call.raised =>
    LET a == call.args
        r == call.results
    IN a.subject = None /\ a.topics_any = NoList /\ a.score_threshold = None
       /\ a.top_k >= Cardinality(collection)
         => \A p \in collection :
              (\E any \in a.doc_ids_any : p.chunk.doc_id \in any)
                => \E i \in 1 .. Len(r) :
                     /\ r[i].point_id = p.id
                     /\ r[i].text = p.chunk.text
                     /\ r[i].subject = p.chunk.subject
                     /\ r[i].topics = p.chunk.topics
                     /\ r[i].s3_uri = p.chunk.s3_uri
                     /\ r[i].doc_id = p.chunk.doc_id
                     /\ r[i].page = p.chunk.page
                     /\ r[i].chunk_id = p.chunk.chunk_id
                     /\ r[i].title = p.chunk.title

\* Both chunks of d1 come back from a search by doc_id while the collection
\* holds points of d2 as well.
C22_FoundByDocId ==
  /\ call.op = "search" /\ ~call.raised
  /\ call.args = [Unfiltered(8) EXCEPT !.doc_ids_any = List({"d1"})]
  /\ Len(call.results) = 2
  /\ \E p \in collection : p.chunk.doc_id = "d2"

\* C23: a delete_by_doc that succeeds removes the points of the document
\* and no other, so that count is lower by the number of the points removed
\* for every subject; of two calls of which one fails and the other
\* succeeds, the return values differ.
C23_DeleteByDocRemovesAndReports ==
  [][call'.op = "delete_by_doc" =>
       /\ ~call'.raised =>
            /\ collection' = {p \in collection : p.doc_id # call'.doc_id}
            /\ \A s \in {None} \cup {Some(c) : c \in {"Math", "Physics", "Chemistry", "General"}} :
                 count(s)' = count(s)
                   - Cardinality({p \in collection :
                                    p.doc_id = call'.doc_id /\ \A v \in s : p.subject = v})
       /\ call.op = "delete_by_doc" /\ call.raised # call'.raised
            => call.result # call'.result]_vars

\* C24: when a call of init_store has returned, the collection exists with
\* an index on subject, topics and doc_id, and the call has logged no
\* exception, whatever the other callers have done meanwhile.
C24_InitStoreToleratesRaces ==
  call.op = "init_store" =>
    \A c \in Callers :
      call.pc[c] = "returned" =>
        collection_exists /\ indexes = PayloadIndexes /\ ~call.error[c]

\* C25: when a task takes the next document from the cursor after having
\* handled one, the job record holds as docs_done the number of the
\* documents it has handled and as vectors its count of vectors.
C25_ProgressPersistedBeforeNextDocument ==
  [][\A j \in JobIds :
       task[j].touched # {} /\ task'[j].touched # task[j].touched
         => /\ ingestion_jobs'[j].docs_done = Cardinality(task[j].touched)
            /\ ingestion_jobs'[j].vectors = task[j].total_vectors]_vars

\* C26: a task takes a document from the cursor only when it has finished
\* with the one before (from the query, the progress update or the handler
\* of the document), one document at a time, and what a step of a task
\* writes to the documents and to the collection is about the document it
\* has in hand.
C26_OneDocumentAtATime ==
  [][\A j \in JobIds :
       /\ task'[j].touched # task[j].touched
            => /\ task[j].pc \in {"find", "progress", "doc_except"}
               /\ task'[j].doc \notin task[j].touched
               /\ task'[j].touched = task[j].touched \cup {task'[j].doc}
       /\ task'[j].doc # task[j].doc => task'[j].touched # task[j].touched
       /\ task'[j] # task[j]
            => \A d \in DocIds :
                 documents'[d] # documents[d] \/ points'[d] # points[d]
                   => d = task[j].doc /\ task[j].pc \in {"upsert", "mark_ingested", "doc_except"}]_vars

\* A task is upserting the chunks of its second document.
C26_SecondDocumentInHand ==
  \E j \in JobIds :
    /\ Cardinality(task[j].touched) = 2
    /\ task[j].pc = "upsert"
    /\ \E d \in task[j].touched : d # task[j].doc /\ documents[d] = "ingested"

\* C27: every point carries the doc_id of the document its chunk was built
\* from, and none of the points of a document is left after a delete_by_doc
\* of its id that succeeds.
C27_PointsCarryTheDocId ==
  /\ \A p \in collection :
       /\ p.doc_id # "None"
       /\ \E d \in StoreDocs : p.title = Document(d).filename /\ p.doc_id = Document(d)._id
  /\ call.op = "delete_by_doc" /\ ~call.raised
       => \A p \in collection : p.title # Document(call.doc_id).filename

\* The points of d1 were the first two upserted and are gone after
\* delete_by_doc("d1"); the two points of d2 are left.
C27_PointsOfTheDocumentDeleted ==
  /\ call.op = "delete_by_doc" /\ ~call.raised /\ call.doc_id = "d1"
  /\ Ids(collection) = {3, 4}
  /\ \A p \in collection : p.doc_id = "d2"

\* C28: for every slug the mapping returns one of Math, Physics, Chemistry
\* and General; the slug written in lower case and in capitals maps to the
\* same category; a slug that contains none of the keywords, whatever the
\* case, maps to General.
C28_CategoryMappingIsTotal ==
  call.op = "map" /\ call.returned =>
    /\ call.category \in {"Math", "Physics", "Chemistry", "General"}
    /\ call.category = _map_subject_to_category(Lower(call.subject_slug))
    /\ call.category = _map_subject_to_category(Upper(call.subject_slug))
    /\ (\A kw \in Keywords : ~Contains(Lower(call.subject_slug), kw))
         => call.category = "General"

\* C28, its case: a slug written in capitals, a keyword followed by digits,
\* was mapped to Math.
C28_CapitalsMapped ==
  /\ call.op = "map" /\ call.returned
  /\ call.subject_slug = <<"M", "A", "T", "H", "1", "0", "1">>
  /\ call.category = "Math"

\* C29: a job whose status is completed has docs_done equal to docs_total,
\* whatever other jobs and uploads did to the documents during its run.
C29_CompletedMeansAllDone ==
  \A j \in JobIds :
    Created(j) /\ ingestion_jobs[j].status = "completed"
      => ingestion_jobs[j].docs_done = ingestion_jobs[j].docs_total

\* C30: a job does not stay short of completed, failed and canceled for
\* ever: when its task has ended, by returning or by an exception, the
\* status of the job is one of the three (after the end of the task nothing
\* but a cancel request writes the status).
C30_EndedTaskLeavesTerminalStatus ==
  \A j \in JobIds :
    task[j].pc \in {"done", "crashed"}
      => ingestion_jobs[j].status \in {"completed", "failed", "canceled"}

====
